---------------------------- MODULE Spec2Model ----------------------------
(***************************************************************************)
(* Pointstamp reachability tracking (timely/src/progress/reachability.rs). *)
(*                                                                         *)
(* Builder: nodes, edges, shape; is_acyclic; build.                        *)
(* Tracker: buffered updates, propagate_all (step 1 and step 2), pushed.   *)
(* summarize_outputs: backward traversal from the scope outputs.           *)
(*                                                                         *)
(* Timestamps are usize, path summaries are usize acting by addition, as   *)
(* in the documentation tests of the source.                               *)
(*                                                                         *)
(* A location is <<node, kind, port>> with kind 0 for Port::Target and 1   *)
(* for Port::Source, so that the derived ordering of Location (node, then  *)
(* Target before Source, then port index) is the lexicographic order.      *)
(* Vectors are functions on 0..len-1, indexed as in the source.            *)
(***************************************************************************)
EXTENDS Integers, Sequences, FiniteSets, TLC

\* The greatest timestamp, usize::MAX scaled down: times are 0..MaxTime.
MaxTime == 2
\* Largest non-default summary ("add k") handed to add_node.
MaxSummary == 1
\* Number of update calls explored in one behaviour.
MaxCalls == 2
\* Node indices handed to add_node are below MaxNodes.
MaxNodes == 2
\* Largest number of inputs, and of outputs, handed to add_node.
MaxPorts == 1
\* Number of add_edge calls explored in one behaviour.
MaxEdges == 3

KTarget == 0
KSource == 1

Times == 0..MaxTime
Deltas == {-1, 1}

(***************************************************************************)
(* Small helpers.                                                          *)
(***************************************************************************)
Len0(v) == Cardinality(DOMAIN v)

\* a function built by a constructor, held extensionally (as its table), so
\* that EXCEPT applies to the table and not to the unevaluated constructor
Table(f) == f @@ << >>

EmptyVec == << >>

\* vec![x; n] on indices 0..n-1
VecOf(n, x) == Table([i \in 0..(n-1) |-> x])

\* Vec::push on a 0-based vector
Push0(v, x) == Table([i \in 0..Len0(v) |-> IF i < Len0(v) THEN v[i] ELSE x])

\* the sum of the values of a function with a finite domain
RECURSIVE SumFn(_)
SumFn(f) ==
    IF DOMAIN f = {} THEN 0
    ELSE LET x == CHOOSE y \in DOMAIN f : TRUE
         IN f[x] + SumFn(Table([y \in (DOMAIN f) \ {x} |-> f[y]]))

(***************************************************************************)
(* Timestamp and PathSummary for usize.  An Option is a set with at most   *)
(* one element.                                                            *)
(***************************************************************************)
TimeLeq(a, b) == a <= b
TimeLess(a, b) == a < b

SummaryLeq(a, b) == a <= b

DefaultSummary == 0

\* checked addition: None when the sum is not a usize
results_in(summary, time) == IF time + summary <= MaxTime THEN {time + summary} ELSE {}

followed_by(s1, s2) == IF s1 + s2 <= MaxTime THEN {s1 + s2} ELSE {}

Minimal(S) == {x \in S : \A y \in S : ~TimeLess(y, x)}

(***************************************************************************)
(* Antichain<S>: a set of pairwise incomparable elements.                  *)
(***************************************************************************)
AntichainNew == {}

AntichainFromElem(e) == {e}

\* Antichain::insert: [added |-> whether e was inserted, elements |-> after]
AntichainInsert(a, e) ==
    IF \E x \in a : SummaryLeq(x, e)
    THEN [added |-> FALSE, elements |-> a]
    ELSE [added |-> TRUE, elements |-> {x \in a : ~SummaryLeq(e, x)} \cup {e}]

(***************************************************************************)
(* ChangeBatch<K>: net deltas per key, zero entries dropped.               *)
(***************************************************************************)
ChangeBatchNew == << >>

CountOf(cb, k) == IF k \in DOMAIN cb THEN cb[k] ELSE 0

ChangeBatchUpdate(cb, k, d) ==
    LET c == CountOf(cb, k) + d IN
    IF c = 0 THEN Table([x \in (DOMAIN cb) \ {k} |-> cb[x]])
    ELSE Table([x \in (DOMAIN cb) \cup {k} |-> IF x = k THEN c ELSE cb[x]])

ChangeBatchIsEmpty(cb) == DOMAIN cb = {}

\* the accumulation of two batches
ChangeBatchMerge(a, b) ==
    LET keys == {k \in (DOMAIN a) \cup (DOMAIN b) : CountOf(a, k) + CountOf(b, k) # 0}
    IN Table([k \in keys |-> CountOf(a, k) + CountOf(b, k)])

(***************************************************************************)
(* MutableAntichain<T>: counts per time; the frontier is the set of        *)
(* minimal times with positive count.                                      *)
(***************************************************************************)
MutableAntichainNew == << >>

Frontier(ma) == Minimal({t \in DOMAIN ma : ma[t] > 0})

count_for(ma, t) == CountOf(ma, t)

\* update_iter(Some((time, diff))): the counts after, and the changes of the
\* frontier as a set of <<time, +1 / -1>>.
update_iter(ma, time, diff) ==
    LET after == ChangeBatchUpdate(ma, time, diff)
        old == Frontier(ma)
        new == Frontier(after)
    IN [counts |-> after,
        changes |-> {<<t, 1>> : t \in new \ old} \cup {<<t, -1>> : t \in old \ new}]

(***************************************************************************)
(* Locations.  Source::new(n, p) and Target::new(n, p) are <<n, p>>.       *)
(***************************************************************************)
new_target(node, port) == <<node, KTarget, port>>

new_source(node, port) == <<node, KSource, port>>

is_target(loc) == loc[2] = KTarget

is_source(loc) == loc[2] = KSource

\* the derived Ord of Location
LocLess(a, b) ==
    \/ a[1] < b[1]
    \/ a[1] = b[1] /\ a[2] < b[2]
    \/ a[1] = b[1] /\ a[2] = b[2] /\ a[3] < b[3]

\* a finite set of locations as a sequence in increasing order
RECURSIVE SortLocs(_)
SortLocs(S) ==
    IF S = {} THEN << >>
    ELSE LET m == CHOOSE x \in S : \A y \in S : y = x \/ LocLess(x, y)
         IN <<m>> \o SortLocs(S \ {m})

(***************************************************************************)
(* Builder                                                                 *)
(***************************************************************************)
BuilderNew == [nodes |-> EmptyVec, edges |-> EmptyVec, shape |-> EmptyVec]

\* while v.len() <= index { v.push(x) }
Allocate(v, index, x) ==
    IF Len0(v) > index THEN v
    ELSE Table([i \in 0..index |-> IF i < Len0(v) THEN v[i] ELSE x])

\* the debug assertions of add_node
AddNodeAsserts(inputs, outputs, summary) ==
    /\ Len0(summary) = inputs
    /\ \A i \in DOMAIN summary : Len0(summary[i]) = outputs

\* add_node that never resets edges[index]
add_node_keeping_edges(b, index, inputs, outputs, summary) ==
    LET nodes0 == Allocate(b.nodes, index, EmptyVec)
        edges0 == Allocate(b.edges, index, EmptyVec)
        shape0 == Allocate(b.shape, index, <<0, 0>>)
    IN [nodes |-> [nodes0 EXCEPT ![index] = summary],
        edges |-> edges0,
        shape |-> [shape0 EXCEPT ![index] = <<inputs, outputs>>]]

add_node(b, index, inputs, outputs, summary) ==
    LET nodes0 == Allocate(b.nodes, index, EmptyVec)
        edges0 == Allocate(b.edges, index, EmptyVec)
        shape0 == Allocate(b.shape, index, <<0, 0>>)
    IN [nodes |-> [nodes0 EXCEPT ![index] = summary],
        edges |-> IF Len0(edges0[index]) # outputs
                  THEN [edges0 EXCEPT ![index] = VecOf(outputs, << >>)]
                  ELSE edges0,
        shape |-> [shape0 EXCEPT ![index] = <<inputs, outputs>>]]

\* the debug assertions of add_edge (shape[..] must exist to be read)
AddEdgeAsserts(b, source, target) ==
    /\ source[1] \in DOMAIN b.shape
    /\ target[1] \in DOMAIN b.shape
    /\ source[2] < b.shape[source[1]][2]
    /\ target[2] < b.shape[target[1]][1]

\* edges[source.node][source.port] must exist for the push
AddEdgeInBounds(b, source) ==
    /\ source[1] \in DOMAIN b.edges
    /\ source[2] \in DOMAIN b.edges[source[1]]

\* add_edge storing the source where the target belongs
add_edge_storing_source(b, source, target) ==
    [b EXCEPT !.edges[source[1]][source[2]] = Append(@, source)]

add_edge(b, source, target) ==
    [b EXCEPT !.edges[source[1]][source[2]] = Append(@, target)]

(***************************************************************************)
(* Builder::is_acyclic: in-degrees over port locations, then a work list   *)
(* of locations with in-degree zero.                                       *)
(***************************************************************************)
\* the positions <<n, o, k>> of the stored edges
EdgeSlots(b) ==
    UNION {UNION {{<<n, o, k>> : k \in DOMAIN b.edges[n][o]}
                  : o \in DOMAIN b.edges[n]} : n \in DOMAIN b.edges}

\* Location::from(target) of the edge stored at a position
EdgeTargetAt(b, slot) ==
    new_target(b.edges[slot[1]][slot[2]][slot[3]][1], b.edges[slot[1]][slot[2]][slot[3]][2])

\* the number of stored edges into a target location
EdgesInto(b, loc) ==
    Cardinality({slot \in EdgeSlots(b) : EdgeTargetAt(b, slot) = loc})

\* the entries <<n, i, o>> of the summary tables holding the default summary
DefaultEntries(b) ==
    {e \in UNION {UNION {{<<n, i, o>> : o \in DOMAIN b.nodes[n][i]}
                         : i \in DOMAIN b.nodes[n]} : n \in DOMAIN b.nodes} :
        DefaultSummary \in b.nodes[e[1]][e[2]][e[3]]}

\* DefaultsInto without the test "summary == Default::default()": every
\* internal summary is loaded as an arc
DefaultsIntoAnySummary(b, loc) ==
    Cardinality({e \in UNION {UNION {UNION {{<<n, i, o, x>> : x \in b.nodes[n][i][o]}
                                            : o \in DOMAIN b.nodes[n][i]}
                                     : i \in DOMAIN b.nodes[n]} : n \in DOMAIN b.nodes} :
                    new_source(e[1], e[3]) = loc})

\* the number of default internal summaries into a source location
DefaultsInto(b, loc) ==
    Cardinality({e \in DefaultEntries(b) : new_source(e[1], e[3]) = loc})

\* the keys of in_degree after both loading loops
InDegreeKeys(b) ==
    UNION {
        UNION {{new_source(n, o) : o \in DOMAIN b.edges[n]} : n \in DOMAIN b.edges},
        {EdgeTargetAt(b, slot) : slot \in EdgeSlots(b)},
        UNION {{new_target(n, i) : i \in DOMAIN b.nodes[n]} : n \in DOMAIN b.nodes},
        {new_source(e[1], e[3]) : e \in DefaultEntries(b)}
    }

InDegree(b) ==
    Table([loc \in InDegreeKeys(b) |->
        IF is_target(loc) THEN EdgesInto(b, loc) ELSE DefaultsInto(b, loc)])

\* one pass of "*in_degree.get_mut(&x).unwrap() -= 1; if 0, remove and push"
\* over the locations of succ, in order
RECURSIVE Decrement(_, _)
Decrement(st, succ) ==
    IF succ = << >> \/ st.panicked THEN st
    ELSE LET x == Head(succ) IN
         IF x \notin DOMAIN st.in_degree
         THEN [st EXCEPT !.panicked = TRUE]
         ELSE IF st.in_degree[x] = 1
              THEN Decrement([st EXCEPT
                        !.in_degree = Table([y \in (DOMAIN st.in_degree) \ {x} |-> st.in_degree[y]]),
                        !.worklist = Append(st.worklist, x)], Tail(succ))
              ELSE Decrement([st EXCEPT !.in_degree[x] = @ - 1], Tail(succ))

\* the sources reached from a target across default summaries, by output port
DefaultSources(b, node, port) ==
    LET row == b.nodes[node][port] IN
    SelectSeq(Table([k \in 1..Len0(row) |-> new_source(node, k - 1)]),
              LAMBDA s : DefaultSummary \in row[s[3]])

\* the targets of the edges leaving a source, in stored order
EdgeTargets(edges, node, port) ==
    Table([k \in DOMAIN edges[node][port] |->
        new_target(edges[node][port][k][1], edges[node][port][k][2])])

\* while let Some(Location { node, port }) = worklist.pop()
RECURSIVE RemoveLoop(_, _)
RemoveLoop(b, st) ==
    IF st.panicked \/ st.worklist = << >> THEN st
    ELSE LET loc == st.worklist[Len(st.worklist)]
             rest == [st EXCEPT !.worklist = SubSeq(@, 1, Len(@) - 1)]
         IN IF is_source(loc)
            THEN IF loc[1] \in DOMAIN b.edges /\ loc[3] \in DOMAIN b.edges[loc[1]]
                 THEN RemoveLoop(b, Decrement(rest, EdgeTargets(b.edges, loc[1], loc[3])))
                 ELSE [rest EXCEPT !.panicked = TRUE]
            ELSE IF loc[1] \in DOMAIN b.nodes /\ loc[3] \in DOMAIN b.nodes[loc[1]]
                 THEN RemoveLoop(b, Decrement(rest, DefaultSources(b, loc[1], loc[3])))
                 ELSE [rest EXCEPT !.panicked = TRUE]

\* the state in which is_acyclic leaves its loop: the in-degrees left, and
\* whether an index or an unwrap panicked on the way
IsAcyclicRun(b) ==
    LET deg == InDegree(b)
        zero == {loc \in DOMAIN deg : deg[loc] = 0}
    IN RemoveLoop(b, [in_degree |-> Table([loc \in (DOMAIN deg) \ zero |-> deg[loc]]),
                      worklist |-> SortLocs(zero),
                      panicked |-> FALSE])

is_acyclic_panics(b) == IsAcyclicRun(b).panicked

\* the value is_acyclic returns when it returns
is_acyclic(b) == DOMAIN IsAcyclicRun(b).in_degree = {}

(***************************************************************************)
(* summarize_outputs: for each location, per scope output, the antichain   *)
(* of path summaries to that output, by a backward traversal.             *)
(***************************************************************************)
\* the stored edge positions in iteration order (node, output, position)
SlotsInOrder(b) == SortLocs(EdgeSlots(b))

\* a reverse map that keeps the first source inserted for a target
ReverseMapKeepingFirst(b) ==
    LET slots == EdgeSlots(b)
        first(loc) == CHOOSE x \in slots :
                        /\ EdgeTargetAt(b, x) = loc
                        /\ \A y \in slots : EdgeTargetAt(b, y) = loc => (y = x \/ LocLess(x, y))
    IN Table([loc \in {EdgeTargetAt(b, x) : x \in slots} |-> new_source(first(loc)[1], first(loc)[2])])

\* HashMap::insert over the edges in order: the last source inserted for a
\* target is the one kept
ReverseMap(b) ==
    LET slots == EdgeSlots(b)
        last(loc) == CHOOSE x \in slots :
                        /\ EdgeTargetAt(b, x) = loc
                        /\ \A y \in slots : EdgeTargetAt(b, y) = loc => (y = x \/ LocLess(y, x))
    IN Table([loc \in {EdgeTargetAt(b, x) : x \in slots} |-> new_source(last(loc)[1], last(loc)[2])])

\* the work list at the start without the filter on node 0: one entry per
\* stored edge
InitialOutputsUnfiltered(b) ==
    LET all == SlotsInOrder(b)
    IN Table([k \in DOMAIN all |-> <<EdgeTargetAt(b, all[k]), EdgeTargetAt(b, all[k])[3], DefaultSummary>>])

\* the work list at the start: one entry per stored edge into node 0
InitialOutputs(b) ==
    LET zero == SelectSeq(SlotsInOrder(b), LAMBDA x : EdgeTargetAt(b, x)[1] = 0)
    IN Table([k \in DOMAIN zero |-> <<EdgeTargetAt(b, zero[k]), EdgeTargetAt(b, zero[k])[3], DefaultSummary>>])

\* results.entry(location).or_insert(Vec::new()), grown to hold index output
EntryFor(results, loc, output) ==
    Allocate(IF loc \in DOMAIN results THEN results[loc] ELSE EmptyVec, output, AntichainNew)

SetEntry(results, loc, v) ==
    Table([x \in (DOMAIN results) \cup {loc} |-> IF x = loc THEN v ELSE results[x]])

\* for operator_summary in summaries[output_port].elements(): insert the
\* combined summary at (loc, output), and enqueue it when it was inserted
RECURSIVE InsertCombined(_, _, _, _, _)
InsertCombined(st, loc, output, elems, summary) ==
    IF elems = {} THEN st
    ELSE LET op == CHOOSE x \in elems : \A y \in elems : SummaryLeq(x, y)
             combined == followed_by(op, summary)
             row == st.results[loc]
         IN IF combined = {} THEN InsertCombined(st, loc, output, elems \ {op}, summary)
            ELSE LET c == CHOOSE x \in combined : TRUE
                     ins == AntichainInsert(row[output], c)
                     st2 == [results |-> [st.results EXCEPT ![loc][output] = ins.elements],
                             worklist |-> IF ins.added
                                          THEN Append(st.worklist, <<loc, output, c>>)
                                          ELSE st.worklist]
                 IN InsertCombined(st2, loc, output, elems \ {op}, summary)

\* Port::Source arm: for (input_port, summaries) in nodes[location.node]
RECURSIVE CrawlInputs(_, _, _, _, _, _)
CrawlInputs(nodes, st, loc, output, summary, input_port) ==
    IF input_port >= Len0(nodes[loc[1]]) THEN st
    ELSE LET target == new_target(loc[1], input_port)
             st1 == [st EXCEPT !.results = SetEntry(@, target, EntryFor(@, target, output))]
             st2 == InsertCombined(st1, target, output, nodes[loc[1]][input_port][loc[3]], summary)
         IN CrawlInputs(nodes, st2, loc, output, summary, input_port + 1)

\* the Port::Target arm enqueueing the source whether or not the summary was
\* inserted
WalkBackAlwaysEnqueue(reverse, st, loc, output, summary) ==
    IF loc \notin DOMAIN reverse THEN st
    ELSE LET source == reverse[loc]
             row == EntryFor(st.results, source, output)
             ins == AntichainInsert(row[output], summary)
         IN [results |-> SetEntry(st.results, source, [row EXCEPT ![output] = ins.elements]),
             worklist |-> Append(st.worklist, <<source, output, summary>>)]

\* Port::Target arm: walk back the edge kept in the reverse map
WalkBack(reverse, st, loc, output, summary) ==
    IF loc \notin DOMAIN reverse THEN st
    ELSE LET source == reverse[loc]
             row == EntryFor(st.results, source, output)
             ins == AntichainInsert(row[output], summary)
         IN [results |-> SetEntry(st.results, source, [row EXCEPT ![output] = ins.elements]),
             worklist |-> IF ins.added
                          THEN Append(st.worklist, <<source, output, summary>>)
                          ELSE st.worklist]

\* while let Some((location, output, summary)) = worklist.pop_front()
RECURSIVE SummarizeLoop(_, _, _)
SummarizeLoop(nodes, reverse, st) ==
    IF st.worklist = << >> THEN st.results
    ELSE LET item == Head(st.worklist)
             rest == [st EXCEPT !.worklist = Tail(@)]
         IN IF is_source(item[1])
            THEN SummarizeLoop(nodes, reverse,
                               CrawlInputs(nodes, rest, item[1], item[2], item[3], 0))
            ELSE SummarizeLoop(nodes, reverse,
                               WalkBack(reverse, rest, item[1], item[2], item[3]))

\* one iteration of the loop: the front item is popped and handled
SummarizeIteration(nodes, reverse, st) ==
    LET item == Head(st.worklist)
        rest == [st EXCEPT !.worklist = Tail(@)]
    IN IF is_source(item[1])
       THEN CrawlInputs(nodes, rest, item[1], item[2], item[3], 0)
       ELSE WalkBack(reverse, rest, item[1], item[2], item[3])

summarize_outputs(b) ==
    SummarizeLoop(b.nodes, ReverseMap(b), [results |-> << >>, worklist |-> InitialOutputs(b)])

(***************************************************************************)
(* Tracker::allocate_from and Builder::build                               *)
(***************************************************************************)
PortInformationNew ==
    [pointstamps |-> MutableAntichainNew,
     implications |-> MutableAntichainNew,
     output_summaries |-> EmptyVec]

\* the locations of per_operator: targets[0..inputs), sources[0..outputs)
Ports(shape) ==
    UNION {{new_target(n, i) : i \in 0..(shape[n][1] - 1)} \cup
           {new_source(n, o) : o \in 0..(shape[n][2] - 1)} : n \in DOMAIN shape}

\* what allocate_from indexes: shape[0], and per_operator at each summarized port
BuildInBounds(b) ==
    /\ 0 \in DOMAIN b.shape
    /\ \A loc \in DOMAIN summarize_outputs(b) : loc \in Ports(b.shape)

\* the scope summary returned beside the tracker
builder_summary(b) ==
    LET out == summarize_outputs(b) IN
    Table([p \in 0..(b.shape[0][2] - 1) |->
        IF new_source(0, p) \in DOMAIN out THEN out[new_source(0, p)] ELSE EmptyVec])

allocate_from(b) ==
    LET out == summarize_outputs(b) IN
    [nodes |-> b.nodes,
     edges |-> b.edges,
     per_operator |->
        Table([loc \in Ports(b.shape) |->
            IF loc[1] # 0 /\ loc \in DOMAIN out
            THEN [PortInformationNew EXCEPT !.output_summaries = out[loc]]
            ELSE PortInformationNew]),
     target_changes |-> ChangeBatchNew,
     source_changes |-> ChangeBatchNew,
     worklist |-> << >>,
     pushed_changes |-> ChangeBatchNew,
     output_changes |-> VecOf(b.shape[0][1], ChangeBatchNew),
     total_counts |-> 0]

(***************************************************************************)
(* Tracker: buffering of updates                                           *)
(***************************************************************************)
\* update_target that also counts the value at once
update_target_counting(tr, target, time, value) ==
    [tr EXCEPT !.target_changes = ChangeBatchUpdate(@, <<target, time>>, value),
               !.total_counts = @ + value]

update_target(tr, target, time, value) ==
    [tr EXCEPT !.target_changes = ChangeBatchUpdate(@, <<target, time>>, value)]

\* update_source buffering into target_changes
update_source_as_target(tr, source, time, value) ==
    [tr EXCEPT !.target_changes = ChangeBatchUpdate(@, <<source, time>>, value)]

update_source(tr, source, time, value) ==
    [tr EXCEPT !.source_changes = ChangeBatchUpdate(@, <<source, time>>, value)]

update(tr, location, time, value) ==
    IF is_target(location)
    THEN update_target(tr, <<location[1], location[3]>>, time, value)
    ELSE update_source(tr, <<location[1], location[3]>>, time, value)

(***************************************************************************)
(* Tracker::propagate_all, step 1: drain target_changes, then              *)
(* source_changes, through each port's pointstamps.                        *)
(***************************************************************************)
\* the sum of the diffs of a set of frontier changes <<time, diff>>
SumDiffs(changes) ==
    Cardinality({c \in changes : c[2] = 1}) - Cardinality({c \in changes : c[2] = -1})

\* output_changes.update(time, diff): the time of the change itself, not what
\* the summary results in
OutputContributionSameTime(summaries, changes) ==
    LET pairs == changes \X summaries
        net(t) == Cardinality({p \in pairs : p[1][1] = t /\ p[1][2] = 1})
                  - Cardinality({p \in pairs : p[1][1] = t /\ p[1][2] = -1})
    IN Table([t \in {x \in {p[1][1] : p \in pairs} : net(x) # 0} |-> net(t)])

\* what "output_changes.update(out_time, diff)" adds to scope output o for
\* the frontier changes of one port: per out_time, the diffs of the pairs
\* (change, summary) that result in it
OutputContribution(summaries, changes) ==
    LET pairs == {p \in changes \X summaries : results_in(p[2], p[1][1]) # {}}
        out(p) == CHOOSE t \in results_in(p[2], p[1][1]) : TRUE
        net(t) == Cardinality({p \in pairs : out(p) = t /\ p[1][2] = 1})
                  - Cardinality({p \in pairs : out(p) = t /\ p[1][2] = -1})
    IN Table([t \in {x \in {out(p) : p \in pairs} : net(x) # 0} |-> net(t)])

\* the work list is a heap of (time, location, diff); as a multiset:
\* entry -> number of copies
WorklistPushAll(worklist, copies) == ChangeBatchMerge(worklist, copies)

\* "self.total_counts += diff" with the diff of the update itself instead of
\* the diffs of the frontier changes
TotalCountsAfterRawDiff(total, changes, diff) == total + diff

\* "self.total_counts += diff" for each frontier change
TotalCountsAfter(total, changes, diff) == total + SumDiffs(changes)

\* the body of step 1 pushing the drained (time, diff) itself on the work
\* list instead of the frontier changes
AbsorbChangeForwardingCounts(tr, location, time, diff) ==
    LET operator == tr.per_operator[location]
        upd == update_iter(operator.pointstamps, time, diff)
        changes == upd.changes
    IN [tr EXCEPT
          !.per_operator[location].pointstamps = upd.counts,
          !.total_counts = TotalCountsAfter(@, changes, diff),
          !.output_changes =
              Table([o \in DOMAIN @ |->
                  IF o \in DOMAIN operator.output_summaries
                  THEN ChangeBatchMerge(@[o],
                          OutputContribution(operator.output_summaries[o], changes))
                  ELSE @[o]]),
          !.worklist = WorklistPushAll(@, (<<time, location, diff>> :> 1))]

\* the body of both loops of step 1 for one drained ((port, time), diff)
AbsorbChange(tr, location, time, diff) ==
    LET operator == tr.per_operator[location]
        upd == update_iter(operator.pointstamps, time, diff)
        changes == upd.changes
    IN [tr EXCEPT
          !.per_operator[location].pointstamps = upd.counts,
          !.total_counts = TotalCountsAfter(@, changes, diff),
          !.output_changes =
              Table([o \in DOMAIN @ |->
                  IF o \in DOMAIN operator.output_summaries
                  THEN ChangeBatchMerge(@[o],
                          OutputContribution(operator.output_summaries[o], changes))
                  ELSE @[o]]),
          !.worklist = WorklistPushAll(@,
              Table([e \in {<<c[1], location, c[2]>> : c \in changes} |-> 1]))]

\* the order in which ChangeBatch::drain yields keys <<<<node, port>>, time>>
KeyLess(a, b) ==
    \/ a[1][1] < b[1][1]
    \/ a[1][1] = b[1][1] /\ a[1][2] < b[1][2]
    \/ a[1] = b[1] /\ a[2] < b[2]

\* for ((port, time), diff) in changes.drain()
RECURSIVE AbsorbAll(_, _, _)
AbsorbAll(tr, changes, kind) ==
    IF DOMAIN changes = {} THEN tr
    ELSE LET k == CHOOSE x \in DOMAIN changes :
                    \A y \in DOMAIN changes : y = x \/ KeyLess(x, y)
             rest == Table([y \in (DOMAIN changes) \ {k} |-> changes[y]])
         IN AbsorbAll(AbsorbChange(tr, <<k[1][1], kind, k[1][2]>>, k[2], changes[k]),
                      rest, kind)

\* step 1 reading the buffers without draining them
PropagateStep1KeepingBuffers(tr) ==
    AbsorbAll(AbsorbAll(tr, tr.target_changes, KTarget), tr.source_changes, KSource)

\* step 1 with only its first loop: source_changes is left as it was
PropagateStep1TargetsOnly(tr) ==
    AbsorbAll([tr EXCEPT !.target_changes = ChangeBatchNew], tr.target_changes, KTarget)

PropagateStep1(tr) ==
    LET t1 == AbsorbAll([tr EXCEPT !.target_changes = ChangeBatchNew],
                        tr.target_changes, KTarget)
    IN AbsorbAll([t1 EXCEPT !.source_changes = ChangeBatchNew],
                 tr.source_changes, KSource)

(***************************************************************************)
(* Tracker::propagate_all, step 2: one iteration of the work-list loop.    *)
(***************************************************************************)
\* the heap without Reverse: the greatest (time, location) first
WorklistMax(worklist) ==
    LET keys == {<<e[1], e[2]>> : e \in DOMAIN worklist} IN
    CHOOSE k \in keys : \A j \in keys :
        j = k \/ j[1] < k[1] \/ (k[1] = j[1] /\ LocLess(j[2], k[2]))

\* the (time, location) of the least entry of the heap
WorklistMin(worklist) ==
    LET keys == {<<e[1], e[2]>> : e \in DOMAIN worklist} IN
    CHOOSE k \in keys : \A j \in keys :
        j = k \/ k[1] < j[1] \/ (k[1] = j[1] /\ LocLess(k[2], j[2]))

\* the entries popped by the pop and the coalescing loop
Coalesced(worklist, key) == {e \in DOMAIN worklist : <<e[1], e[2]>> = key}

\* their accumulated diff
CoalescedDiff(worklist, key) ==
    SumFn(Table([e \in Coalesced(worklist, key) |-> e[3] * worklist[e]]))

\* the Port::Target arm pushing only the times that entered the frontier
ForwardFromTargetAdditionsOnly(tr, location, changes) ==
    LET row == tr.nodes[location[1]][location[3]]
        hops == {h \in {c \in changes : c[2] = 1}
                          \X UNION {{<<o, s>> : s \in row[o]} : o \in DOMAIN row} :
                    results_in(h[2][2], h[1][1]) # {}}
        entry(h) == <<CHOOSE t \in results_in(h[2][2], h[1][1]) : TRUE,
                      new_source(location[1], h[2][1]), h[1][2]>>
    IN Table([e \in {entry(h) : h \in hops} |-> Cardinality({h \in hops : entry(h) = e})])

\* the Port::Target arm pushing the time unchanged, without results_in
ForwardFromTargetSameTime(tr, location, changes) ==
    LET row == tr.nodes[location[1]][location[3]]
        hops == changes \X UNION {{<<o, s>> : s \in row[o]} : o \in DOMAIN row}
        entry(h) == <<h[1][1], new_source(location[1], h[2][1]), h[1][2]>>
    IN Table([e \in {entry(h) : h \in hops} |-> Cardinality({h \in hops : entry(h) = e})])

\* Port::Target arm: across each internal summary to the node's sources
ForwardFromTarget(tr, location, changes) ==
    LET row == tr.nodes[location[1]][location[3]]
        hops == {h \in changes \X UNION {{<<o, s>> : s \in row[o]} : o \in DOMAIN row} :
                    results_in(h[2][2], h[1][1]) # {}}
        entry(h) == <<CHOOSE t \in results_in(h[2][2], h[1][1]) : TRUE,
                      new_source(location[1], h[2][1]), h[1][2]>>
    IN Table([e \in {entry(h) : h \in hops} |-> Cardinality({h \in hops : entry(h) = e})])

\* the Port::Source arm pushing only the times that entered the frontier
ForwardFromSourceAdditionsOnly(tr, location, changes) ==
    LET targets == tr.edges[location[1]][location[3]]
        hops == {c \in changes : c[2] = 1} \X DOMAIN targets
        entry(h) == <<h[1][1], new_target(targets[h[2]][1], targets[h[2]][2]), h[1][2]>>
    IN Table([e \in {entry(h) : h \in hops} |-> Cardinality({h \in hops : entry(h) = e})])

\* the Port::Source arm pushing nothing along the edges
ForwardFromSourceNowhere(tr, location, changes) == << >>

\* Port::Source arm: along each outgoing edge
ForwardFromSource(tr, location, changes) ==
    LET targets == tr.edges[location[1]][location[3]]
        hops == changes \X DOMAIN targets
        entry(h) == <<h[1][1], new_target(targets[h[2]][1], targets[h[2]][2]), h[1][2]>>
    IN Table([e \in {entry(h) : h \in hops} |-> Cardinality({h \in hops : entry(h) = e})])

\* forwarding along edges only: nothing across the internal summaries
ForwardAlongEdgesOnly(tr, location, changes) ==
    IF is_target(location) THEN << >> ELSE ForwardFromSource(tr, location, changes)

Forward(tr, location, changes) ==
    IF is_target(location)
    THEN ForwardFromTarget(tr, location, changes)
    ELSE ForwardFromSource(tr, location, changes)

\* pushed_changes.update only for the times that enter the frontier
PushedContributionAdditionsOnly(location, changes) ==
    Table([k \in {<<location, c[1]>> : c \in {x \in changes : x[2] = 1}} |-> 1])

\* pushed_changes.update((location, time), diff) for each frontier change
PushedContribution(location, changes) ==
    Table([k \in {<<location, c[1]>> : c \in changes} |->
        CHOOSE d \in {-1, 1} : <<k[2], d>> \in changes])

\* applying an entry and forwarding it whether or not the frontier changed
ApplyImplicationAlwaysForwarding(tr, time, location, diff) ==
    LET upd == update_iter(tr.per_operator[location].implications, time, diff)
    IN [tr EXCEPT
          !.per_operator[location].implications = upd.counts,
          !.worklist = WorklistPushAll(@,
              Forward(tr, location, {<<time, IF diff > 0 THEN 1 ELSE -1>>})),
          !.pushed_changes = ChangeBatchMerge(@, PushedContribution(location, upd.changes))]

\* "if diff != 0 { ... }" for the coalesced (time, location, diff)
ApplyImplication(tr, time, location, diff) ==
    LET upd == update_iter(tr.per_operator[location].implications, time, diff)
    IN [tr EXCEPT
          !.per_operator[location].implications = upd.counts,
          !.worklist = WorklistPushAll(@, Forward(tr, location, upd.changes)),
          !.pushed_changes = ChangeBatchMerge(@, PushedContribution(location, upd.changes))]

\* one iteration without the coalescing loop: a single entry is popped
CirculateStepSingleEntry(tr) ==
    LET key == WorklistMin(tr.worklist)
        e == CHOOSE x \in Coalesced(tr.worklist, key) : TRUE
        popped == [tr EXCEPT !.worklist = ChangeBatchUpdate(@, e, -1)]
    IN ApplyImplication(popped, key[1], key[2], e[3])

\* one iteration of "while let Some(..) = self.worklist.pop()"
CirculateStep(tr) ==
    LET key == WorklistMin(tr.worklist)
        diff == CoalescedDiff(tr.worklist, key)
        popped == [tr EXCEPT !.worklist =
                      Table([e \in (DOMAIN @) \ Coalesced(@, key) |-> @[e]])]
    IN IF diff # 0 THEN ApplyImplication(popped, key[1], key[2], diff) ELSE popped

\* tracking_anything looking at total_counts alone
tracking_anything_counts_only(tr) == tr.total_counts > 0

tracking_anything(tr) ==
    \/ ~ChangeBatchIsEmpty(tr.source_changes)
    \/ ~ChangeBatchIsEmpty(tr.target_changes)
    \/ tr.total_counts > 0

\* is_global without the test of the count
is_global_ignoring_count(tr, location, time) ==
    ~\E t \in Frontier(tr.per_operator[location].implications) : TimeLess(t, time)

is_global(tr, location, time) ==
    LET implications == tr.per_operator[location].implications
        dominated == \E t \in Frontier(implications) : TimeLess(t, time)
        redundant == count_for(implications, time) > 1
    IN ~dominated /\ ~redundant

(***************************************************************************)
(* Graphs, built with add_node and add_edge.                               *)
(***************************************************************************)
\* vec![vec![a]]: one input, one output
OneByOne(a) == VecOf(1, VecOf(1, a))

\* the module's documentation test: three nodes in a cycle, summaries
\* +0, +0, +1
CycleGraph ==
    LET n0 == add_node(BuilderNew, 0, 1, 1, OneByOne(AntichainFromElem(0)))
        n1 == add_node(n0, 1, 1, 1, OneByOne(AntichainFromElem(0)))
        n2 == add_node(n1, 2, 1, 1, OneByOne(AntichainFromElem(1)))
        e0 == add_edge(n2, <<0, 0>>, <<1, 0>>)
        e1 == add_edge(e0, <<1, 0>>, <<2, 0>>)
    IN add_edge(e1, <<2, 0>>, <<0, 0>>)

\* the documentation test of is_acyclic: two inputs and outputs, only one of
\* which advances, each output connected to the opposite input
SwapGraph ==
    LET n0 == add_node(BuilderNew, 0, 2, 2,
                 Table([i \in 0..1 |-> Table([o \in 0..1 |->
                     IF i # o THEN AntichainNew
                     ELSE IF i = 0 THEN AntichainFromElem(0) ELSE AntichainFromElem(1)])]))
        e0 == add_edge(n0, <<0, 0>>, <<0, 1>>)
    IN add_edge(e0, <<0, 1>>, <<0, 0>>)

\* one node, default summary, no edges
SingleGraph == add_node(BuilderNew, 0, 1, 1, OneByOne(AntichainFromElem(0)))

\* one node whose output feeds its own input across a default summary
SelfLoopGraph == add_edge(SingleGraph, <<0, 0>>, <<0, 0>>)

\* scope input -> operator 1 (advancing by 1) -> scope output
ChainGraph ==
    LET n0 == add_node(BuilderNew, 0, 1, 1, OneByOne(AntichainNew))
        n1 == add_node(n0, 1, 1, 1, OneByOne(AntichainFromElem(1)))
        e0 == add_edge(n1, <<0, 0>>, <<1, 0>>)
    IN add_edge(e0, <<1, 0>>, <<0, 0>>)

\* two scope inputs into the same operator input
FanInGraph ==
    LET n0 == add_node(BuilderNew, 0, 1, 2, VecOf(1, VecOf(2, AntichainNew)))
        n1 == add_node(n0, 1, 1, 1, OneByOne(AntichainFromElem(0)))
        e0 == add_edge(n1, <<0, 0>>, <<1, 0>>)
        e1 == add_edge(e0, <<0, 1>>, <<1, 0>>)
    IN add_edge(e1, <<1, 0>>, <<0, 0>>)

\* scope input -> operator 1 (default summary), its output unconnected
PipelineGraph ==
    LET n0 == add_node(BuilderNew, 0, 0, 1, EmptyVec)
        n1 == add_node(n0, 1, 1, 1, OneByOne(AntichainFromElem(0)))
    IN add_edge(n1, <<0, 0>>, <<1, 0>>)

\* two nodes with default summaries, each output feeding the other's input
DefaultCycleGraph ==
    LET n0 == add_node(BuilderNew, 0, 1, 1, OneByOne(AntichainFromElem(0)))
        n1 == add_node(n0, 1, 1, 1, OneByOne(AntichainFromElem(0)))
        e0 == add_edge(n1, <<0, 0>>, <<1, 0>>)
    IN add_edge(e0, <<1, 0>>, <<0, 0>>)

Graphs == {SwapGraph, SingleGraph, SelfLoopGraph, ChainGraph, FanInGraph}

(***************************************************************************)
(* State                                                                   *)
(***************************************************************************)
VARIABLES
    builder,     \* Builder: nodes, edges, shape
    tracker,     \* Tracker, once built
    pc,          \* "building", "panicked", "idle", "circulate" (inside propagate_all,
                 \* step 2), "summarizing" or "summarized"
    printed,     \* whether build printed "Cycle detected without timestamp increment"
    calls,       \* number of update calls made
    net,         \* per (location, time): the sum of all updates submitted
    drained,     \* accumulation of everything drained from pushed()
    last_time,   \* time of the last entry popped in this propagate_all, or -1
    summarizing  \* results and worklist of a summarize_outputs in progress

vars == <<builder, tracker, pc, printed, calls, net, drained, last_time, summarizing>>

\* summarize_outputs is not running
NotSummarizing == [results |-> << >>, worklist |-> << >>]

NoTracker ==
    [nodes |-> EmptyVec, edges |-> EmptyVec, per_operator |-> << >>,
     target_changes |-> ChangeBatchNew, source_changes |-> ChangeBatchNew,
     worklist |-> << >>, pushed_changes |-> ChangeBatchNew,
     output_changes |-> EmptyVec, total_counts |-> 0]

\* build without its diagnostic
build_silent(b) == [tracker |-> allocate_from(b), printed |-> FALSE]

\* Builder::build: the diagnostic, then Tracker::allocate_from
build(b) == [tracker |-> allocate_from(b), printed |-> ~is_acyclic(b)]

BuiltFrom(b) ==
    /\ builder = b
    /\ tracker = build(b).tracker
    /\ printed = build(b).printed
    /\ pc = "idle"
    /\ calls = 0
    /\ net = ChangeBatchNew
    /\ drained = ChangeBatchNew
    /\ last_time = -1
    /\ summarizing = NotSummarizing

\* a tracker freshly built from one of the graphs
Init == \E b \in Graphs : BuiltFrom(b)

\* the tracker of the documentation test, freshly built
InitCycle == BuiltFrom(CycleGraph)

(***************************************************************************)
(* Tracker actions                                                         *)
(***************************************************************************)
Locations == DOMAIN tracker.per_operator

Buffer(location, time, value, tr) ==
    /\ pc = "idle"
    /\ calls < MaxCalls
    /\ tracker' = tr
    /\ calls' = calls + 1
    /\ net' = ChangeBatchUpdate(net, <<location, time>>, value)
    /\ UNCHANGED <<builder, pc, printed, drained, last_time, summarizing>>

Update ==
    \E location \in Locations, time \in Times, value \in Deltas :
        Buffer(location, time, value, update(tracker, location, time, value))

UpdateTarget ==
    \E location \in {l \in Locations : is_target(l)}, time \in Times, value \in Deltas :
        Buffer(location, time, value,
               update_target(tracker, <<location[1], location[3]>>, time, value))

UpdateSource ==
    \E location \in {l \in Locations : is_source(l)}, time \in Times, value \in Deltas :
        Buffer(location, time, value,
               update_source(tracker, <<location[1], location[3]>>, time, value))

\* propagate_all is entered: step 1 runs
PropagateAll ==
    /\ pc = "idle"
    /\ tracker' = PropagateStep1(tracker)
    /\ pc' = "circulate"
    /\ last_time' = -1
    /\ UNCHANGED <<builder, printed, calls, net, drained, summarizing>>

\* one iteration of the loop of step 2
Circulate ==
    /\ pc = "circulate"
    /\ DOMAIN tracker.worklist # {}
    /\ last_time' = WorklistMin(tracker.worklist)[1]
    /\ tracker' = CirculateStep(tracker)
    /\ UNCHANGED <<builder, pc, printed, calls, net, drained, summarizing>>

\* the work list is empty: propagate_all returns
PropagateReturn ==
    /\ pc = "circulate"
    /\ DOMAIN tracker.worklist = {}
    /\ pc' = "idle"
    /\ last_time' = -1
    /\ UNCHANGED <<builder, tracker, printed, calls, net, drained, summarizing>>

\* the host drains pushed()
DrainPushed ==
    /\ pc = "idle"
    /\ ~ChangeBatchIsEmpty(tracker.pushed_changes)
    /\ drained' = ChangeBatchMerge(drained, tracker.pushed_changes)
    /\ tracker' = [tracker EXCEPT !.pushed_changes = ChangeBatchNew]
    /\ UNCHANGED <<builder, pc, printed, calls, net, last_time, summarizing>>

\* the host asks tracking_anything(): a value is returned, nothing is assigned
TrackingAnything ==
    /\ pc = "idle"
    /\ tracking_anything(tracker) \in BOOLEAN
    /\ UNCHANGED vars

\* the host asks is_global(location, time): whatever it asks about, a value
\* is returned and nothing is assigned
IsGlobal ==
    /\ pc = "idle"
    /\ \A location \in Locations, time \in Times :
            is_global(tracker, location, time) \in BOOLEAN
    /\ UNCHANGED vars

Next ==
    \/ Update
    \/ UpdateTarget
    \/ UpdateSource
    \/ PropagateAll
    \/ Circulate
    \/ PropagateReturn
    \/ DrainPushed
    \/ TrackingAnything
    \/ IsGlobal

Spec == Init /\ [][Next]_vars

\* propagate_all, once entered, keeps running: its loop and its return are
\* not interleaved with anything else
SpecFair == Spec /\ WF_vars(Circulate) /\ WF_vars(PropagateReturn)

SpecCycle == InitCycle /\ [][Next]_vars

\* a tracker freshly built from a graph whose edges all lead to a greater
\* location, or from one with an edge leading back to node 0
InitLayers == BuiltFrom(PipelineGraph) \/ BuiltFrom(ChainGraph)

SpecLayers == InitLayers /\ [][Next]_vars

\* a tracker freshly built from a graph with a cycle of default summaries
InitDefaultCycle == BuiltFrom(SelfLoopGraph) \/ BuiltFrom(DefaultCycleGraph)

\* propagate_all on such a tracker, once entered, keeps running
SpecDefaultCycleFair ==
    InitDefaultCycle /\ [][Next]_vars /\ WF_vars(Circulate) /\ WF_vars(PropagateReturn)

(***************************************************************************)
(* Builder actions                                                         *)
(***************************************************************************)
InitBuilder ==
    /\ builder = BuilderNew
    /\ tracker = NoTracker
    /\ pc = "building"
    /\ printed = FALSE
    /\ calls = 0
    /\ net = ChangeBatchNew
    /\ drained = ChangeBatchNew
    /\ last_time = -1
    /\ summarizing = NotSummarizing

SummaryChoices == {AntichainNew} \cup {AntichainFromElem(k) : k \in 0..MaxSummary}

\* add_node with arguments that pass its debug assertions
AddNode ==
    /\ pc = "building"
    /\ \E index \in 0..(MaxNodes - 1), inputs \in 0..MaxPorts, outputs \in 0..MaxPorts :
        \E summary \in [0..(inputs - 1) -> [0..(outputs - 1) -> SummaryChoices]] :
            /\ AddNodeAsserts(inputs, outputs, summary)
            /\ builder' = add_node(builder, index, inputs, outputs, summary)
    /\ UNCHANGED <<tracker, pc, printed, calls, net, drained, last_time, summarizing>>

\* add_edge with arguments that pass its debug assertions
AddEdge ==
    /\ pc = "building"
    /\ Cardinality(EdgeSlots(builder)) < MaxEdges
    /\ \E source \in (0..(MaxNodes - 1)) \X (0..(MaxPorts - 1)),
          target \in (0..(MaxNodes - 1)) \X (0..(MaxPorts - 1)) :
            /\ AddEdgeAsserts(builder, source, target)
            /\ AddEdgeInBounds(builder, source)
            /\ builder' = add_edge(builder, source, target)
    /\ UNCHANGED <<tracker, pc, printed, calls, net, drained, last_time, summarizing>>

\* build(&self): is_acyclic, the diagnostic, allocate_from. An index out of
\* bounds in is_acyclic or in allocate_from panics; the diagnostic is printed
\* before allocate_from runs.
Build ==
    /\ pc = "building"
    /\ IF is_acyclic_panics(builder)
         THEN pc' = "panicked" /\ UNCHANGED <<tracker, printed>>
         ELSE IF ~BuildInBounds(builder)
         THEN pc' = "panicked" /\ printed' = ~is_acyclic(builder) /\ UNCHANGED tracker
         ELSE /\ tracker' = build(builder).tracker
              /\ printed' = build(builder).printed
              /\ pc' = "idle"
    /\ UNCHANGED <<builder, calls, net, drained, last_time, summarizing>>

NextBuilder ==
    \/ AddNode
    \/ AddEdge
    \/ Build

SpecBuilder == InitBuilder /\ [][NextBuilder]_vars

(***************************************************************************)
(* summarize_outputs, one iteration at a time                              *)
(***************************************************************************)
\* summarize_outputs(&builder.nodes, &builder.edges) is entered: the reverse
\* map is built and the work list is seeded
SummarizeStart ==
    /\ pc = "building"
    /\ summarizing' = [results |-> << >>, worklist |-> InitialOutputs(builder)]
    /\ pc' = "summarizing"
    /\ UNCHANGED <<builder, tracker, printed, calls, net, drained, last_time>>

\* one iteration of "while let Some(..) = worklist.pop_front()"
SummarizeStep ==
    /\ pc = "summarizing"
    /\ summarizing.worklist # << >>
    /\ summarizing' = SummarizeIteration(builder.nodes, ReverseMap(builder), summarizing)
    /\ UNCHANGED <<builder, tracker, pc, printed, calls, net, drained, last_time>>

\* the work list is empty: results is returned
SummarizeReturn ==
    /\ pc = "summarizing"
    /\ summarizing.worklist = << >>
    /\ pc' = "summarized"
    /\ UNCHANGED <<builder, tracker, printed, calls, net, drained, last_time, summarizing>>

NextSummarize ==
    \/ AddNode
    \/ AddEdge
    \/ SummarizeStart
    \/ SummarizeStep
    \/ SummarizeReturn

\* summarize_outputs, once entered, keeps running
SpecSummarize ==
    InitBuilder /\ [][NextSummarize]_vars
        /\ WF_vars(SummarizeStep) /\ WF_vars(SummarizeReturn)

(***************************************************************************)
(* Properties of the builder                                               *)
(***************************************************************************)
\* the arcs of the graph over port locations: every stored edge, and
\* Target(n, i) -> Source(n, j) wherever nodes[n][i][j] holds the default
DefaultArcs(b) ==
    {<<new_source(slot[1], slot[2]), EdgeTargetAt(b, slot)>> : slot \in EdgeSlots(b)}
    \cup {<<new_target(e[1], e[2]), new_source(e[1], e[3])>> : e \in DefaultEntries(b)}

\* the same with every internal summary, default or not
AllArcs(b) ==
    {<<new_source(slot[1], slot[2]), EdgeTargetAt(b, slot)>> : slot \in EdgeSlots(b)}
    \cup UNION {UNION {{<<new_target(n, i), new_source(n, o)>>
                          : o \in {j \in DOMAIN b.nodes[n][i] : b.nodes[n][i][j] # {}}}
                       : i \in DOMAIN b.nodes[n]} : n \in DOMAIN b.nodes}

RECURSIVE TransitiveClosure(_)
TransitiveClosure(R) ==
    LET step == R \cup {pq \in {<<p[1], q[2]>> : p \in R, q \in R} :
                          \E p \in R, q \in R : p[2] = q[1] /\ pq = <<p[1], q[2]>>}
    IN IF step = R THEN R ELSE TransitiveClosure(step)

HasCycle(arcs) == \E p \in TransitiveClosure(arcs) : p[1] = p[2]

\* every stored edge leads to an input port the shape table has
EdgesWellFormed(b) == \A slot \in EdgeSlots(b) : EdgeTargetAt(b, slot) \in Ports(b.shape)

\* C7 as stated: in every builder state reached by add_node and add_edge,
\* is_acyclic() returns false if and only if the graph of edges and default
\* internal summaries has a directed cycle.
C7_FalseIffDefaultCycle ==
    pc = "building" =>
        ((~is_acyclic_panics(builder) /\ ~is_acyclic(builder))
            <=> HasCycle(DefaultArcs(builder)))

\* C7 amended: in every builder state reached by add_node and add_edge in
\* which every stored edge leads to an existing input port, is_acyclic()
\* returns, and returns false if and only if the graph of edges and default
\* internal summaries has a directed cycle; a cycle through a non-default
\* summary does not make it false.
C7_WellFormedFalseIffDefaultCycle ==
    (pc = "building" /\ EdgesWellFormed(builder)) =>
        /\ ~is_acyclic_panics(builder)
        /\ is_acyclic(builder) <=> ~HasCycle(DefaultArcs(builder))

\* a cycle through a non-default summary, none of defaults: is_acyclic is true
C7_Witness ==
    /\ pc = "building"
    /\ EdgesWellFormed(builder)
    /\ HasCycle(AllArcs(builder))
    /\ ~HasCycle(DefaultArcs(builder))
    /\ is_acyclic(builder)

\* a default cycle over two nodes: is_acyclic is false
C7_WitnessCycle ==
    /\ pc = "building"
    /\ EdgesWellFormed(builder)
    /\ Cardinality(EdgeSlots(builder)) >= 2
    /\ HasCycle(DefaultArcs(builder))
    /\ ~is_acyclic_panics(builder)
    /\ ~is_acyclic(builder)

(***************************************************************************)
(* Properties of the tracker                                               *)
(***************************************************************************)
PointFrontier(location) == Frontier(tracker.per_operator[location].pointstamps)

ImplFrontier(location) == Frontier(tracker.per_operator[location].implications)

\* between public calls, with nothing buffered: the last update, if any, was
\* followed by a propagate_all() that has returned
Quiescent ==
    /\ pc = "idle"
    /\ ChangeBatchIsEmpty(tracker.target_changes)
    /\ ChangeBatchIsEmpty(tracker.source_changes)
    /\ DOMAIN tracker.worklist = {}

\* everything ever recorded in pushed(), drained or not
PushedEver == ChangeBatchMerge(drained, tracker.pushed_changes)

\* each target has at most one incoming edge
SingleFanIn(b) == \A slot \in EdgeSlots(b) : EdgesInto(b, EdgeTargetAt(b, slot)) = 1

\* the non-default internal summaries strictly advance every time
StrictlyAdvancing(b) ==
    \A n \in DOMAIN b.nodes : \A i \in DOMAIN b.nodes[n] : \A o \in DOMAIN b.nodes[n][i] :
        \A x \in b.nodes[n][i][o] : x # DefaultSummary => \A t \in Times : \A u \in results_in(x, t) : TimeLess(t, u)

\* the sum of all internal summaries: no simple path advances a time by more
SummaryTotal(b) ==
    SumFn(Table([e \in UNION {UNION {UNION {{<<n, i, o, x>> : x \in b.nodes[n][i][o]}
                                          : o \in DOMAIN b.nodes[n][i]}
                                   : i \in DOMAIN b.nodes[n]} : n \in DOMAIN b.nodes} |-> e[4]]))

\* one more hop from a set of <<location, time>>: along an edge, or across an
\* internal summary, up to the time horizon
RECURSIVE CouldResultIn(_, _, _)
CouldResultIn(b, horizon, S) ==
    LET alongEdges ==
            UNION {{<<EdgeTargetAt(b, slot), p[2]>> :
                        slot \in {x \in EdgeSlots(b) : new_source(x[1], x[2]) = p[1]}}
                   : p \in {q \in S : is_source(q[1])}}
        across ==
            UNION {UNION {UNION {{<<new_source(p[1][1], o), u>> :
                                      u \in {v \in results_in(x, p[2]) : v <= horizon}}
                                 : x \in b.nodes[p[1][1]][p[1][3]][o]}
                          : o \in DOMAIN b.nodes[p[1][1]][p[1][3]]}
                   : p \in {q \in S : is_target(q[1])}}
        more == S \cup alongEdges \cup across
    IN IF more = S THEN S ELSE CouldResultIn(b, horizon, more)

\* the times s(t) at a location: t in the frontier of some port's
\* pointstamps, s the summary of a path from that port
ImpliedTimes(location) ==
    LET seeds == UNION {{<<P, t>> : t \in PointFrontier(P)} : P \in Locations}
        horizon == MaxTime + SummaryTotal(builder)
    IN {p[2] : p \in {q \in CouldResultIn(builder, horizon, seeds) : q[1] = location}}

\* C1: on a graph on which is_acyclic() is true, whose non-default summaries
\* strictly advance time and whose targets have at most one incoming edge,
\* after a propagate_all() the frontier of every port's implications is the
\* set of minimal path images of the frontiers of the pointstamps.
C1_ImplicationsAreMinimalPathImages ==
    (Quiescent /\ is_acyclic(builder) /\ StrictlyAdvancing(builder) /\ SingleFanIn(builder)) =>
        \A L \in Locations : ImplFrontier(L) = Minimal(ImpliedTimes(L))

\* a pointstamp whose image at another port went through an advancing summary
C1_Witness ==
    /\ Quiescent /\ is_acyclic(builder) /\ StrictlyAdvancing(builder) /\ SingleFanIn(builder)
    /\ \E P \in Locations, L \in Locations :
        /\ P # L
        /\ PointFrontier(P) # {}
        /\ PointFrontier(L) = {}
        /\ \E t \in ImplFrontier(L) : \A u \in PointFrontier(P) : TimeLess(u, t)

\* C2: after a propagate_all(), the sum of everything ever recorded in
\* pushed() for (location, t) is 1 if t is in the frontier of the location's
\* implications and 0 otherwise.
C2_PushedSumsToImplicationFrontier ==
    Quiescent =>
        \A L \in Locations :
            /\ \A t \in ImplFrontier(L) : CountOf(PushedEver, <<L, t>>) = 1
            /\ \A k \in DOMAIN PushedEver : k[1] = L => k[2] \in ImplFrontier(L)

\* a frontier that has moved: something was recorded and later retracted
C2_Witness ==
    /\ Quiescent
    /\ ~ChangeBatchIsEmpty(drained)
    /\ \E k \in DOMAIN drained : k \notin DOMAIN PushedEver
    /\ \E L \in Locations : ImplFrontier(L) # {}

\* C9: inside propagate_all(), no entry of the work list is earlier than the
\* entry popped last, so the times popped are non-decreasing.
C9_PoppedTimesNonDecreasing ==
    pc = "circulate" => \A e \in DOMAIN tracker.worklist : last_time <= e[1]

\* an entry later than the one popped before it is about to be popped
C9_Witness ==
    /\ pc = "circulate"
    /\ last_time >= 0
    /\ DOMAIN tracker.worklist # {}
    /\ WorklistMin(tracker.worklist)[1] > last_time

\* C10: between public calls total_counts is the sum over all ports of the
\* sizes of the frontiers of their pointstamps, and is not negative.
C10_TotalCountsIsSumOfFrontierSizes ==
    pc = "idle" =>
        /\ tracker.total_counts =
              SumFn(Table([L \in Locations |-> Cardinality(PointFrontier(L))]))
        /\ tracker.total_counts >= 0

\* a count went up without the frontier growing, or below zero
C10_Witness ==
    /\ pc = "idle"
    /\ tracker.total_counts = 1
    /\ \E L \in Locations :
        \E t \in DOMAIN tracker.per_operator[L].pointstamps :
            \/ tracker.per_operator[L].pointstamps[t] > 1
            \/ tracker.per_operator[L].pointstamps[t] < 0

S00 == new_source(0, 0)

\* a batch restricted to the targets
TargetsOf(cb) == Table([k \in {x \in DOMAIN cb : is_target(x[1])} |-> cb[k]])

\* the three target entries of the documentation test, with diff d
CycleTargets(t, d) ==
    (<<new_target(0, 0), t + 1>> :> d) @@ (<<new_target(1, 0), t>> :> d)
        @@ (<<new_target(2, 0), t>> :> d)

\* a fresh tracker after update_source(Source(0, 0), t, +1) and
\* propagate_all(), pushed() not drained
Added(t) ==
    Quiescent /\ calls = 1 /\ net = (<<S00, t>> :> 1) /\ ChangeBatchIsEmpty(drained)

\* C3 as stated: on the three-node cycle, for every time t, a fresh tracker
\* after update_source(Source(0, 0), t, +1) and propagate_all() has in
\* pushed(), restricted to targets, exactly (Target(0,0), t+1),
\* (Target(1,0), t) and (Target(2,0), t), each with +1.
C3_CyclePushesThreeTargets ==
    \A t \in Times :
        Added(t) => TargetsOf(tracker.pushed_changes) = CycleTargets(t, 1)

\* C3: on the three-node cycle, for every time t below the greatest, a fresh
\* tracker after update_source(Source(0, 0), t, +1) and propagate_all() has
\* in pushed(), restricted to targets, exactly (Target(0,0), t+1),
\* (Target(1,0), t) and (Target(2,0), t), each with +1; for the greatest
\* time the first of the three is absent.
C3_CyclePushesThreeTargetsBelowMax ==
    \A t \in Times :
        Added(t) =>
            TargetsOf(tracker.pushed_changes) =
                IF t < MaxTime THEN CycleTargets(t, 1)
                ELSE (<<new_target(1, 0), t>> :> 1) @@ (<<new_target(2, 0), t>> :> 1)

C3_Witness ==
    /\ builder = CycleGraph
    /\ Added(MaxTime - 1)
    /\ CountOf(tracker.pushed_changes, <<new_target(0, 0), MaxTime>>) = 1

AllEmpty ==
    /\ \A L \in Locations : PointFrontier(L) = {} /\ ImplFrontier(L) = {}
    /\ tracker.total_counts = 0

\* the capability at Source(0, 0), time t, was added, propagated and drained
\* from pushed(), then retracted and propagated
Retracted(t) ==
    /\ Quiescent /\ calls = 2 /\ ChangeBatchIsEmpty(net)
    /\ CountOf(drained, <<S00, t>>) = 1
    /\ CountOf(drained, <<new_target(0, 0), t>>) = 0

\* C4 as stated: on the three-node cycle, for every time t, once the
\* capability of C3 has been added, propagated and drained,
\* update_source(Source(0, 0), t, -1) and propagate_all() leave in pushed()
\* the same three targets with -1, every frontier of pointstamps and
\* implications empty, and total_counts 0.
C4_CycleRetractionEmptiesTracker ==
    \A t \in Times :
        Retracted(t) =>
            /\ TargetsOf(tracker.pushed_changes) = CycleTargets(t, -1)
            /\ AllEmpty

\* C4: the same for every time t below the greatest; for the greatest time
\* the entry of Target(0,0) is absent, and the tracker is empty all the same.
C4_CycleRetractionEmptiesTrackerBelowMax ==
    \A t \in Times :
        Retracted(t) =>
            /\ TargetsOf(tracker.pushed_changes) =
                   IF t < MaxTime THEN CycleTargets(t, -1)
                   ELSE (<<new_target(1, 0), t>> :> -1) @@ (<<new_target(2, 0), t>> :> -1)
            /\ AllEmpty

C4_Witness ==
    /\ builder = CycleGraph
    /\ Retracted(MaxTime - 1)
    /\ TargetsOf(drained) = CycleTargets(MaxTime - 1, 1)
    /\ CountOf(tracker.pushed_changes, <<new_target(0, 0), MaxTime>>) = -1

\* no port counts anything: the state of a tracker just built
NothingCounted ==
    /\ \A L \in Locations :
        /\ tracker.per_operator[L].pointstamps = MutableAntichainNew
        /\ tracker.per_operator[L].implications = MutableAntichainNew
    /\ tracker.total_counts = 0

\* C5 as stated: on any graph accepted by build(), once every update has
\* been retracted and propagated, all frontiers are empty and total_counts
\* is 0.
C5_RoundTripRestoresEmpty ==
    (Quiescent /\ ChangeBatchIsEmpty(net)) => NothingCounted

\* C5: on any graph on which is_acyclic() is true, once every update has
\* been retracted and propagated, all frontiers of pointstamps and
\* implications are empty and total_counts is 0.
C5_AcyclicRoundTripRestoresEmpty ==
    (Quiescent /\ ChangeBatchIsEmpty(net) /\ is_acyclic(builder)) => NothingCounted

\* an update was propagated and recorded, then retracted and propagated
C5_Witness ==
    /\ Quiescent /\ ChangeBatchIsEmpty(net) /\ is_acyclic(builder)
    /\ calls = 2
    /\ ~ChangeBatchIsEmpty(drained)
    /\ ~ChangeBatchIsEmpty(tracker.pushed_changes)

\* the updates buffered for one port, per time
BatchFor(tr, L) ==
    LET cb == IF is_target(L) THEN tr.target_changes ELSE tr.source_changes
        port == <<L[1], L[3]>>
    IN Table([t \in {k[2] : k \in {x \in DOMAIN cb : x[1] = port}} |-> cb[<<port, t>>]])

\* how a frontier moves when the counts change from old to new
FrontierMove(old, new) ==
    {<<t, 1>> : t \in Frontier(new) \ Frontier(old)}
        \cup {<<t, -1>> : t \in Frontier(old) \ Frontier(new)}

\* step 1 applied to each port as one batch: the buffered sums are added to
\* the counts at once and only the net move of each frontier is reported
AtomicStep1(tr) ==
    LET locs == DOMAIN tr.per_operator
        counts(L) == ChangeBatchMerge(tr.per_operator[L].pointstamps, BatchFor(tr, L))
        moved(L) == FrontierMove(tr.per_operator[L].pointstamps, counts(L))
        out(L, o) ==
            IF o \in DOMAIN tr.per_operator[L].output_summaries
            THEN OutputContribution(tr.per_operator[L].output_summaries[o], moved(L))
            ELSE << >>
        outNet(o, t) == SumFn(Table([L \in locs |-> CountOf(out(L, o), t)]))
        outTimes(o) == UNION {DOMAIN out(L, o) : L \in locs}
    IN [tr EXCEPT
          !.target_changes = ChangeBatchNew,
          !.source_changes = ChangeBatchNew,
          !.per_operator = Table([L \in locs |-> [@[L] EXCEPT !.pointstamps = counts(L)]]),
          !.total_counts = @ + SumFn(Table([L \in locs |-> SumDiffs(moved(L))])),
          !.output_changes =
              Table([o \in DOMAIN @ |->
                  ChangeBatchMerge(@[o],
                      Table([t \in {x \in outTimes(o) : outNet(o, x) # 0} |-> outNet(o, t)]))]),
          !.worklist = WorklistPushAll(@,
              Table([e \in UNION {{<<c[1], L, c[2]>> : c \in moved(L)} : L \in locs} |-> 1]))]

\* a work list after coalescing: per (time, location) the accumulated diff
Consolidated(worklist) ==
    LET keys == {<<e[1], e[2]>> : e \in DOMAIN worklist}
    IN Table([k \in {x \in keys : CoalescedDiff(worklist, x) # 0} |->
                  CoalescedDiff(worklist, k)])

\* step 2 run to its end
RECURSIVE RunToEnd(_)
RunToEnd(tr) ==
    IF DOMAIN tr.worklist = {} THEN tr ELSE RunToEnd(CirculateStep(tr))

\* what has been submitted for a port and time and is still buffered
Buffered(L, t) ==
    CountOf(IF is_target(L) THEN tracker.target_changes ELSE tracker.source_changes,
            <<<<L[1], L[3]>>, t>>)

\* C6: the state depends on the updates submitted only through their sums
\* per (location, time): each sum is what is buffered plus what is counted
\* in pointstamps; and propagate_all() on a buffer gives what applying the
\* buffered sums to each port as one batch gives: the same pointstamps,
\* total_counts, output_changes and consolidated work list after step 1, and
\* the same tracker once step 2 has run.
C6_BufferedUpdatesActAsOneBatch ==
    /\ [](\A L \in Locations : \A t \in Times :
            CountOf(net, <<L, t>>)
                = Buffered(L, t) + count_for(tracker.per_operator[L].pointstamps, t))
    /\ [][(pc = "idle" /\ pc' = "circulate") =>
            /\ [tracker' EXCEPT !.worklist = Consolidated(@)]
                   = [AtomicStep1(tracker) EXCEPT !.worklist = Consolidated(@)]
            /\ RunToEnd(tracker') = RunToEnd(AtomicStep1(tracker))]_vars

\* step 1 has just absorbed two updates of one port in one call
C6_Witness ==
    /\ pc = "circulate" /\ last_time = -1 /\ calls = 2
    /\ \E L \in Locations :
        /\ Cardinality(DOMAIN tracker.per_operator[L].pointstamps) = 2
        /\ \E e \in DOMAIN tracker.worklist : e[2] = L

\* C8: on a graph on which is_acyclic() is true and whose non-default
\* summaries strictly advance, propagate_all() returns, and when it returns
\* the work list, target_changes and source_changes are empty.
C8_PropagateAllTerminatesEmpty ==
    /\ (is_acyclic(builder) /\ StrictlyAdvancing(builder) /\ pc = "circulate") ~> (pc = "idle")
    /\ [][(is_acyclic(builder) /\ StrictlyAdvancing(builder)
              /\ pc = "circulate" /\ pc' = "idle") =>
            /\ DOMAIN tracker'.worklist = {}
            /\ ChangeBatchIsEmpty(tracker'.target_changes)
            /\ ChangeBatchIsEmpty(tracker'.source_changes)]_vars

\* propagate_all() is about to return after a loop that ran, both kinds of
\* update having been buffered
C8_Witness ==
    /\ is_acyclic(builder) /\ StrictlyAdvancing(builder)
    /\ pc = "circulate" /\ last_time >= 0 /\ DOMAIN tracker.worklist = {}
    /\ \E k \in DOMAIN net : is_target(k[1])
    /\ \E k \in DOMAIN net : is_source(k[1])

\* what has been submitted for a port and time and not yet counted in its
\* pointstamps: the net delta still buffered
NetBuffered(L, t) ==
    CountOf(net, <<L, t>>) - count_for(tracker.per_operator[L].pointstamps, t)

C11_WitnessBuffered ==
    /\ pc = "idle" /\ tracker.total_counts = 0
    /\ \E L \in Locations : \E t \in Times : NetBuffered(L, t) # 0
    /\ tracking_anything(tracker)

\* propagate_all() has completed, both buffers are empty, pushed() has been
\* drained and tracking_anything() answers false
NothingTracked ==
    /\ Quiescent
    /\ ChangeBatchIsEmpty(tracker.pushed_changes)
    /\ ~tracking_anything(tracker)

\* C12 as stated: on any graph accepted by build(), when propagate_all() has
\* completed, the buffers are empty and tracking_anything() is false,
\* total_counts is 0 and everything drained from pushed() nets to empty.
C12_NothingTrackedNothingPushed ==
    NothingTracked => (tracker.total_counts = 0 /\ ChangeBatchIsEmpty(drained))

\* C12: the same on any graph on which is_acyclic() is true.
C12_AcyclicNothingTrackedNothingPushed ==
    (NothingTracked /\ is_acyclic(builder)) =>
        (tracker.total_counts = 0 /\ ChangeBatchIsEmpty(drained))

\* a capability was added, pushed, drained, retracted and drained again
C12_Witness ==
    /\ NothingTracked /\ is_acyclic(builder)
    /\ calls = 2 /\ ChangeBatchIsEmpty(net)
    /\ ChangeBatchIsEmpty(drained)
    /\ \E L \in Locations : is_source(L) /\ tracker.edges[L[1]][L[3]] # << >>

\* C13: for every port and every time t in the frontier of its
\* implications, is_global(location, t) is true if and only if no element of
\* that frontier is strictly less than t and implications.count_for(t) = 1.
C13_IsGlobalIffUndominatedAndSingle ==
    pc = "idle" =>
        \A L \in Locations : \A t \in ImplFrontier(L) :
            is_global(tracker, L, t) <=>
                /\ ~\E u \in ImplFrontier(L) : TimeLess(u, t)
                /\ count_for(tracker.per_operator[L].implications, t) = 1

\* a frontier time implied twice, for which the answer is false, beside one
\* implied once, for which it is true
C13_Witness ==
    /\ pc = "idle"
    /\ \E L \in Locations : \E t \in ImplFrontier(L) :
        /\ count_for(tracker.per_operator[L].implications, t) = 2
        /\ ~is_global(tracker, L, t)
    /\ \E L \in Locations : \E t \in ImplFrontier(L) : is_global(tracker, L, t)

\* the frontier of a port's implications once one unit at t is removed
FrontierLess(L, t) ==
    Frontier(update_iter(tracker.per_operator[L].implications, t, -1).counts)

SummariesToOutput(P, o) ==
    LET out == summarize_outputs(builder) IN
    IF P \in DOMAIN out /\ o \in DOMAIN out[P] THEN out[P][o] ELSE {}

\* the triples (port of a node other than 0, time of the frontier of its
\* pointstamps, summary to output o) that result in u
Projections(o, u) ==
    UNION {UNION {{<<P, t, x>> : x \in {y \in SummariesToOutput(P, o) : results_in(y, t) = {u}}}
                  : t \in PointFrontier(P)}
           : P \in {L \in Locations : L[1] # 0}}

\* C15: between public calls, for every scope output o and time u, what has
\* been recorded in pushed_output()[o] at u sums to the number of triples
\* (port of a node other than 0, t in the frontier of its pointstamps,
\* s in its output summaries for o) with s.results_in(t) = Some(u).
C15_PushedOutputCountsProjections ==
    pc = "idle" =>
        \A o \in DOMAIN tracker.output_changes :
            /\ \A u \in Times :
                  CountOf(tracker.output_changes[o], u) = Cardinality(Projections(o, u))
            /\ DOMAIN tracker.output_changes[o] \subseteq Times

\* an output holds a projected time that differs from the pointstamp's, while
\* a port of node 0 holds a pointstamp too
C15_Witness ==
    /\ pc = "idle"
    /\ \E o \in DOMAIN tracker.output_changes :
        \E P \in Locations : \E t \in PointFrontier(P) :
            /\ P[1] # 0
            /\ CountOf(tracker.output_changes[o], t) = 0
            /\ CountOf(tracker.output_changes[o], t + 1) = 1
    /\ \E P \in Locations : P[1] = 0 /\ PointFrontier(P) # {}

(***************************************************************************)
(* Properties of summarize_outputs                                         *)
(***************************************************************************)
\* the pairs <<location, summary>> of the paths to Target(0, o): one hop back
\* from the pairs of S along an edge or across an internal summary, composed
\* in path order, until nothing is added
RECURSIVE PathsBack(_, _)
PathsBack(b, S) ==
    LET alongEdges ==
            UNION {{<<new_source(slot[1], slot[2]), p[2]>> :
                        slot \in {x \in EdgeSlots(b) : EdgeTargetAt(b, x) = p[1]}}
                   : p \in {q \in S : is_target(q[1])}}
        across ==
            UNION {UNION {UNION {{<<new_target(p[1][1], i), c>> :
                                      c \in followed_by(x, p[2])}
                                 : x \in b.nodes[p[1][1]][i][p[1][3]]}
                          : i \in DOMAIN b.nodes[p[1][1]]}
                   : p \in {q \in S : is_source(q[1])}}
        more == S \cup alongEdges \cup across
    IN IF more = S THEN S ELSE PathsBack(b, more)

\* the summaries of the paths of at least one hop from L to Target(0, o)
PathSummaries(b, L, o) ==
    LET last == {<<new_source(slot[1], slot[2]), DefaultSummary>> :
                    slot \in {x \in EdgeSlots(b) : EdgeTargetAt(b, x) = new_target(0, o)}}
    IN {p[2] : p \in {q \in PathsBack(b, last) : q[1] = L}}

\* the antichain computed for (L, o): empty when the entry is missing
SummarizedFor(b, L, o) ==
    LET out == summarize_outputs(b) IN
    IF L \in DOMAIN out /\ o \in DOMAIN out[L] THEN out[L][o] ELSE {}

\* the locations and scope outputs a builder can speak of
BuilderLocations(b) ==
    Ports(b.shape) \cup DOMAIN summarize_outputs(b)
        \cup {EdgeTargetAt(b, x) : x \in EdgeSlots(b)}

\* C16: on every graph in which each target has at most one incoming edge,
\* for every location L and scope output o the antichain summarize_outputs
\* computes for (L, o) is the set of minimal compositions of the internal
\* summaries along the paths from L to Target(0, o); without such a path the
\* entry is empty or missing.
C16_SummariesAreMinimalPathCompositions ==
    (pc = "building" /\ SingleFanIn(builder)) =>
        \A L \in BuilderLocations(builder) : \A o \in 0..MaxPorts :
            SummarizedFor(builder, L, o) = Minimal(PathSummaries(builder, L, o))

\* a location whose paths to the output compose to different summaries, the
\* least of which is not the default, beside a location without any path
C16_Witness ==
    /\ pc = "building" /\ SingleFanIn(builder)
    /\ \E L \in BuilderLocations(builder) :
        /\ Cardinality(PathSummaries(builder, L, 0)) >= 2
        /\ SummarizedFor(builder, L, 0) = {1}
    /\ \E L \in BuilderLocations(builder) : PathSummaries(builder, L, 0) = {}

(***************************************************************************)
(* Frame and repetition                                                    *)
(***************************************************************************)
\* C17: update, update_target and update_source only buffer: a call leaves
\* every port's pointstamps and implications, total_counts, the work list,
\* pushed() and pushed_output() as they were; only target_changes or
\* source_changes changes, by the value submitted.
C17_UpdatesOnlyBuffer ==
    [][calls' # calls =>
        /\ tracker' = [tracker EXCEPT !.target_changes = tracker'.target_changes,
                                      !.source_changes = tracker'.source_changes]
        /\ \/ tracker'.target_changes = tracker.target_changes
           \/ tracker'.source_changes = tracker.source_changes
        /\ \A L \in Locations : \A t \in Times :
              CountOf(net', <<L, t>>) - CountOf(net, <<L, t>>)
                  = CountOf(IF is_target(L) THEN tracker'.target_changes
                                            ELSE tracker'.source_changes, <<<<L[1], L[3]>>, t>>)
                    - Buffered(L, t)]_vars

\* after a propagate_all() that counted something, two updates are buffered,
\* one in each buffer, and nothing else has moved
C17_Witness ==
    /\ pc = "idle" /\ calls = 2
    /\ ~ChangeBatchIsEmpty(tracker.target_changes)
    /\ ~ChangeBatchIsEmpty(tracker.source_changes)
    /\ NothingCounted
    /\ ChangeBatchIsEmpty(tracker.pushed_changes)
    /\ DOMAIN tracker.worklist = {}

\* propagate_all() from entry to return
propagate_all(tr) == RunToEnd(PropagateStep1(tr))

\* C18: for any tracker state and any buffered batch, propagate_all() twice
\* in a row leaves the tracker (pointstamps, implications, total_counts,
\* pushed(), pushed_output()) as propagate_all() once leaves it.
C18_SecondPropagateChangesNothing ==
    pc = "idle" => propagate_all(propagate_all(tracker)) = propagate_all(tracker)

\* a buffered batch whose propagation moves a frontier that already held
C18_Witness ==
    /\ pc = "idle"
    /\ tracker.total_counts > 0
    /\ ~ChangeBatchIsEmpty(tracker.source_changes)
    /\ propagate_all(tracker).pushed_changes # tracker.pushed_changes
    /\ propagate_all(tracker).total_counts # tracker.total_counts

T00 == new_target(0, 0)

\* C19: on the graph of one node with a default summary and no edges, for
\* every time t a fresh tracker after update_target(Target(0, 0), t, +1) and
\* propagate_all() has in pushed() both (Target(0,0), t) and
\* (Source(0,0), t) with +1.
C19_SingleNodeForwardsAcrossSummary ==
    \A t \in Times :
        (/\ builder = SingleGraph
         /\ Quiescent /\ calls = 1 /\ net = (<<T00, t>> :> 1)
         /\ ChangeBatchIsEmpty(drained)) =>
            tracker.pushed_changes = (<<T00, t>> :> 1) @@ (<<S00, t>> :> 1)

C19_Witness ==
    /\ builder = SingleGraph
    /\ Quiescent /\ calls = 1 /\ net = (<<T00, MaxTime>> :> 1)
    /\ ChangeBatchIsEmpty(drained)
    /\ CountOf(tracker.pushed_changes, <<S00, MaxTime>>) = 1

(***************************************************************************)
(* Properties of build                                                     *)
(***************************************************************************)
\* C20: build() does not fail because of a default cycle: whenever
\* is_acyclic() returns and allocate_from stays in bounds, build() returns
\* the tracker of allocate_from(builder), cyclic or not; the diagnostic is
\* printed if and only if is_acyclic() is false; the builder is unchanged.
C20_BuildReturnsAllocateFromAndWarnsIffCyclic ==
    /\ [](pc = "idle" =>
            /\ tracker = allocate_from(builder)
            /\ printed <=> ~is_acyclic(builder))
    /\ [][pc' # "building" =>
            /\ builder' = builder
            /\ (~is_acyclic_panics(builder) /\ BuildInBounds(builder)) => pc' = "idle"
            /\ printed' <=> (~is_acyclic_panics(builder) /\ ~is_acyclic(builder))]_vars

\* a builder with a default cycle has been built: the diagnostic was printed
\* and the tracker is there
C20_Witness ==
    /\ pc = "idle"
    /\ printed
    /\ ~is_acyclic(builder)
    /\ tracker = allocate_from(builder)
    /\ tracker # NoTracker

\* a builder without a default cycle has been built silently
C20_WitnessAcyclic ==
    /\ pc = "idle"
    /\ ~printed
    /\ is_acyclic(builder)
    /\ Cardinality(DOMAIN builder.nodes) = MaxNodes

(***************************************************************************)
(* Discreteness of the reported frontier changes                           *)
(***************************************************************************)
\* 1 when t is in the frontier F, 0 otherwise
Member(F, t) == IF t \in F THEN 1 ELSE 0

\* the frontier changes of pointstamps pushed on the work list for (L, t):
\* the additions less the removals
WorklistNet(tr, L, t) == CountOf(tr.worklist, <<t, L, 1>>) - CountOf(tr.worklist, <<t, L, -1>>)

\* what one step added to pushed() for (L, t)
PushedDelta(before, after, L, t) ==
    CountOf(after.pushed_changes, <<L, t>>) - CountOf(before.pushed_changes, <<L, t>>)

\* C21: for every port and time the successive nonzero frontier deltas
\* alternate in sign, starting with +1. For implications: the running sum of
\* everything recorded in pushed() for (port, t) is always 0 or 1, and one
\* iteration of step 2 records -1, 0 or +1, which is the change of t's
\* membership in the frontier. For pointstamps: what step 1 reports for
\* (port, t) nets to the change of t's membership in the frontier, and
\* total_counts moves by the sum of these.
C21_FrontierReportsAlternate ==
    /\ [](pc # "building" => \A k \in DOMAIN PushedEver : PushedEver[k] = 1)
    /\ [][(pc = "circulate" /\ pc' = "circulate") =>
            \A L \in Locations : \A t \in Times :
                /\ PushedDelta(tracker, tracker', L, t) \in {-1, 0, 1}
                /\ PushedDelta(tracker, tracker', L, t)
                     = Member(Frontier(tracker'.per_operator[L].implications), t)
                       - Member(Frontier(tracker.per_operator[L].implications), t)]_vars
    /\ [][(pc = "idle" /\ pc' = "circulate") =>
            /\ \A L \in Locations : \A t \in Times :
                 WorklistNet(tracker', L, t)
                     = Member(Frontier(tracker'.per_operator[L].pointstamps), t)
                       - Member(Frontier(tracker.per_operator[L].pointstamps), t)
            /\ tracker'.total_counts - tracker.total_counts
                 = SumFn(Table([k \in Locations \X Times |-> WorklistNet(tracker', k[1], k[2])]))]_vars

\* a (port, time) reported with +1, drained, and then reported with -1
C21_Witness ==
    /\ pc = "idle"
    /\ \E k \in DOMAIN drained :
          /\ drained[k] = 1
          /\ CountOf(tracker.pushed_changes, k) = -1
    /\ tracker.total_counts = 0

SourcesInShape(b) ==
    /\ DOMAIN b.edges = DOMAIN b.shape
    /\ \A slot \in EdgeSlots(b) : slot[2] < b.shape[slot[1]][2]

\* C23 as stated: in every builder state reached by add_node and add_edge
\* calls that satisfy their debug assertions, every stored edge is
\* well-formed: for every target stored in edges[n][p], p < outputs_n and
\* the target's port index is < inputs of the target's node.
C23_EveryStoredEdgeWellFormed ==
    pc = "building" => (SourcesInShape(builder) /\ EdgesWellFormed(builder))

\* C23: in every such builder state, for every target stored in edges[n][p],
\* p < outputs_n; the target's port index is < inputs of the target's node
\* at the start, and after every add_edge and every add_node that lowers no
\* node's number of inputs if it was so before.
C23_EdgesWellFormedUnlessInputsLowered ==
    /\ [](pc = "building" => SourcesInShape(builder))
    /\ [][(/\ pc' = "building"
           /\ EdgesWellFormed(builder)
           /\ \A n \in DOMAIN builder.shape : builder'.shape[n][1] >= builder.shape[n][1])
          => EdgesWellFormed(builder')]_vars

\* as many edges as the bound allows, all well-formed, over all the nodes
C23_Witness ==
    /\ pc = "building"
    /\ Cardinality(EdgeSlots(builder)) = MaxEdges
    /\ Cardinality(DOMAIN builder.shape) = MaxNodes
    /\ SourcesInShape(builder)
    /\ EdgesWellFormed(builder)

\* an edge into an input port that a later add_node removed
C23_WitnessStale ==
    /\ pc = "building"
    /\ SourcesInShape(builder)
    /\ ~EdgesWellFormed(builder)

\* the arguments of add_node that pass its debug assertions
AddNodeArgs ==
    UNION {UNION {{<<index, inputs, outputs, summary>> :
                     summary \in {x \in [0..(inputs - 1) -> [0..(outputs - 1) -> SummaryChoices]] :
                                     AddNodeAsserts(inputs, outputs, x)}}
                  : inputs \in 0..MaxPorts, outputs \in 0..MaxPorts}
           : index \in 0..(MaxNodes - 1)}

\* the frame of one add_node(n, inputs, outputs, summary) from b to after
AddNodeFrame(b, after, n, inputs, outputs, summary) ==
    /\ DOMAIN after.nodes = (DOMAIN b.nodes) \cup 0..n
    /\ DOMAIN after.edges = DOMAIN after.nodes
    /\ DOMAIN after.shape = DOMAIN after.nodes
    /\ after.nodes[n] = summary
    /\ after.shape[n] = <<inputs, outputs>>
    /\ after.edges[n] =
          IF n \in DOMAIN b.edges /\ Len0(b.edges[n]) = outputs
          THEN b.edges[n]
          ELSE VecOf(outputs, << >>)
    /\ \A m \in (DOMAIN b.nodes) \ {n} :
          /\ after.nodes[m] = b.nodes[m]
          /\ after.shape[m] = b.shape[m]
          /\ after.edges[m] = b.edges[m]
    /\ \A m \in (0..(n - 1)) \ DOMAIN b.nodes :
          /\ after.nodes[m] = EmptyVec
          /\ after.shape[m] = <<0, 0>>
          /\ after.edges[m] = EmptyVec

\* C24: add_node(n, inputs, outputs, summary) replaces nodes[n] and shape[n]
\* with the new values; it resets edges[n] to `outputs` empty lists when
\* edges[n] had a different length and otherwise keeps it; every existing
\* node m # n keeps its nodes, shape and edges; missing nodes below n are
\* created with shape (0,0) and no edges.
C24_AddNodeFrame ==
    pc = "building" =>
        \A a \in AddNodeArgs :
            AddNodeFrame(builder, add_node(builder, a[1], a[2], a[3], a[4]),
                         a[1], a[2], a[3], a[4])

\* a builder with an edge out of node 0 and no node 1 yet: add_node(0, ..)
\* with the same number of outputs keeps the edge, with another number drops
\* it, and add_node(1, ..) leaves node 0 alone
C24_Witness ==
    /\ pc = "building"
    /\ DOMAIN builder.nodes = {0}
    /\ builder.shape[0] = <<1, 1>>
    /\ Len0(builder.edges[0][0]) >= 1

\* node 1 was added first: node 0 was created empty below it
C24_WitnessBelow ==
    /\ pc = "building"
    /\ DOMAIN builder.nodes = {0, 1}
    /\ builder.shape[0] = <<0, 0>>
    /\ builder.nodes[0] = EmptyVec
    /\ builder.edges[0] = EmptyVec
    /\ builder.shape[1] = <<1, 1>>

(***************************************************************************)
(* The visits of one propagate_all                                         *)
(***************************************************************************)
\* the (time, location) pairs popped by the loop of step 2, in order
RECURSIVE Visits(_)
Visits(tr) ==
    IF DOMAIN tr.worklist = {} THEN << >>
    ELSE <<WorklistMin(tr.worklist)>> \o Visits(CirculateStep(tr))

NoRepeat(seq) == \A i \in DOMAIN seq : \A j \in DOMAIN seq : i # j => seq[i] # seq[j]

\* every edge leads to a greater location than its source: to a node of
\* greater index
Layered(b) ==
    \A slot \in EdgeSlots(b) : LocLess(new_source(slot[1], slot[2]), EdgeTargetAt(b, slot))

EdgesCarrying(tr, T, t) ==
    {slot \in UNION {UNION {{<<n, o, k>> : k \in DOMAIN tr.edges[n][o]}
                            : o \in DOMAIN tr.edges[n]} : n \in DOMAIN tr.edges} :
        /\ new_target(tr.edges[slot[1]][slot[2]][slot[3]][1],
                      tr.edges[slot[1]][slot[2]][slot[3]][2]) = T
        /\ t \in Frontier(tr.per_operator[new_source(slot[1], slot[2])].implications)}

\* the triples (input i, summary s of nodes[n][i][j], time u in the
\* implication frontier of Target(n, i)) with s.results_in(u) = Some(t)
SummariesCarrying(tr, n, j, t) ==
    {x \in UNION {{<<i, s, u>> : s \in tr.nodes[n][i][j],
                                u \in Frontier(tr.per_operator[new_target(n, i)].implications)}
                  : i \in DOMAIN tr.nodes[n]} :
        results_in(x[2], x[3]) = {t}}

\* C26: after every propagate_all(), on any graph, for every target T and
\* time t the implications count of T at t is [t in the frontier of T's
\* pointstamps] + the number of edges S -> T with t in the frontier of S's
\* implications; for every source Source(n, j) and time t it is [t in the
\* frontier of its pointstamps] + the number of triples (i, s, t') with s in
\* nodes[n][i][j], t' in the frontier of Target(n, i)'s implications and
\* s.results_in(t') = Some(t).
C26_LocalFlowAtQuiescence ==
    Quiescent =>
        \A L \in Locations : \A t \in Times :
            count_for(tracker.per_operator[L].implications, t) =
                Member(PointFrontier(L), t)
                + IF is_target(L)
                  THEN Cardinality(EdgesCarrying(tracker, L, t))
                  ELSE Cardinality(SummariesCarrying(tracker, L[1], L[3], t))

\* a target that holds a time on its own and receives it along an edge, and
\* a source that receives a time across an advancing summary
C26_Witness ==
    /\ Quiescent
    /\ \E L \in Locations : \E t \in Times :
          /\ is_target(L)
          /\ count_for(tracker.per_operator[L].implications, t) = 2
          /\ t \in PointFrontier(L)
    /\ \E L \in Locations : \E t \in Times :
          /\ is_source(L)
          /\ count_for(tracker.per_operator[L].implications, t) = 1
          /\ t \notin PointFrontier(L)
          /\ \E x \in SummariesCarrying(tracker, L[1], L[3], t) : x[2] # DefaultSummary

(***************************************************************************)
(* Implications are protected from negative pointstamp counts              *)
(***************************************************************************)
\* C27: at every step of every propagate_all(), and between calls, every
\* count held in every port's implications is >= 0, also when submitted
\* updates have driven counts of pointstamps below zero.
C27_ImplicationCountsNonNegative ==
    pc \in {"idle", "circulate"} =>
        \A L \in Locations :
            \A t \in DOMAIN tracker.per_operator[L].implications :
                tracker.per_operator[L].implications[t] > 0

\* inside the loop of step 2, after an entry has been applied, with a count
\* of pointstamps below zero and implications held elsewhere
C27_Witness ==
    /\ pc = "circulate"
    /\ last_time >= 0
    /\ \E L \in Locations : \E t \in Times :
          count_for(tracker.per_operator[L].pointstamps, t) < 0
    /\ \E L \in Locations : tracker.per_operator[L].implications # MutableAntichainNew

(***************************************************************************)
(* The compiled projection and the online propagation                      *)
(***************************************************************************)
\* every update submitted so far that has not been cancelled is at a port
\* of a node other than 0
UpdatesInsideOnly == \A k \in DOMAIN net : k[1][1] # 0

\* C28: on a graph on which is_acyclic() is true, with at most one incoming
\* edge per target and strictly advancing non-default summaries, when
\* updates are submitted only at ports of nodes other than 0, after
\* propagate_all() the minimal times with positive accumulated count in
\* pushed_output()[o] are exactly the frontier of the implications of
\* Target(0, o), for every scope output o that has an incoming edge.
C28_OutputFrontierIsScopeOutputFrontier ==
    (/\ Quiescent
     /\ is_acyclic(builder) /\ SingleFanIn(builder) /\ StrictlyAdvancing(builder)
     /\ UpdatesInsideOnly) =>
        \A o \in DOMAIN tracker.output_changes :
            EdgesInto(builder, new_target(0, o)) >= 1 =>
                Frontier(tracker.output_changes[o]) = ImplFrontier(new_target(0, o))

\* on the chain, an update at the operator's output and a later one at its
\* input: the projection holds two times, the earlier one is the frontier of
\* the scope output
C28_Witness ==
    /\ Quiescent /\ builder = ChainGraph /\ UpdatesInsideOnly
    /\ calls = 2
    /\ Cardinality(DOMAIN tracker.output_changes[0]) = 2
    /\ \A t \in DOMAIN tracker.output_changes[0] : tracker.output_changes[0][t] > 0
    /\ Cardinality(ImplFrontier(T00)) = 1

(***************************************************************************)
(* Termination on a cycle of default summaries                             *)
(***************************************************************************)
\* C29: on a tracker built from a graph on which is_acyclic() is false (build
\* printed its diagnostic), propagate_all() terminates for every buffered batch; an addition popped
\* for a time that its port's implication frontier already holds only
\* raises the count there: nothing is pushed on the work list and nothing
\* is recorded in pushed().
C29_TerminatesOnDefaultCycle ==
    /\ (pc = "circulate" /\ printed) ~> (pc = "idle")
    /\ [][(/\ pc = "circulate" /\ pc' = "circulate"
           /\ printed
           /\ DOMAIN tracker.worklist # {}) =>
            LET key == WorklistMin(tracker.worklist)
                diff == CoalescedDiff(tracker.worklist, key)
                before == tracker.per_operator[key[2]].implications
                after == tracker'.per_operator[key[2]].implications
            IN (diff > 0 /\ key[1] \in Frontier(before)) =>
                  /\ count_for(after, key[1]) = count_for(before, key[1]) + diff
                  /\ tracker'.worklist =
                        Table([e \in (DOMAIN tracker.worklist)
                                     \ Coalesced(tracker.worklist, key) |-> tracker.worklist[e]])
                  /\ tracker'.pushed_changes = tracker.pushed_changes]_vars

\* one update has gone round the default cycle: its origin holds the time
\* twice, once for the pointstamp and once for what came back
C29_Witness ==
    /\ Quiescent /\ printed /\ ~is_acyclic(builder)
    /\ calls = 1
    /\ \E L \in Locations : \E t \in Times :
          /\ count_for(tracker.per_operator[L].pointstamps, t) = 1
          /\ count_for(tracker.per_operator[L].implications, t) = 2

(***************************************************************************)
(* Several edges into one target                                           *)
(***************************************************************************)
\* the stored edges that are the last into their target, in the order
\* source node, output port, position
KeptSlots(b) ==
    {x \in EdgeSlots(b) :
        \A y \in EdgeSlots(b) : EdgeTargetAt(b, y) = EdgeTargetAt(b, x) => (y = x \/ LocLess(y, x))}

\* the builder with only those edges
LastEdgesOnly(b) ==
    [b EXCEPT !.edges =
        Table([n \in DOMAIN b.edges |->
            Table([o \in DOMAIN b.edges[n] |->
                LET ks == {k \in DOMAIN b.edges[n][o] : <<n, o, k>> \in KeptSlots(b)}
                IN [i \in 1..Cardinality(ks) |->
                       b.edges[n][o][CHOOSE k \in ks : Cardinality({j \in ks : j <= k}) = i]]])])]

\* C30: when several edges lead into the same target, summarize_outputs
\* keeps one predecessor for it, the source of the last of them in the order
\* source node, output port, insertion: the antichain computed for every
\* (L, o) is the set of minimal summaries of the paths that use, into each
\* target, only the last edge; the earlier sources receive nothing through
\* the target. propagate_all() forwards a change at a source along every
\* stored edge.
C30_LastEdgeIntoTargetIsThePredecessor ==
    pc = "building" =>
        /\ \A L \in BuilderLocations(builder) : \A o \in 0..MaxPorts :
              SummarizedFor(builder, L, o)
                  = Minimal(PathSummaries(LastEdgesOnly(builder), L, o))
        /\ BuildInBounds(builder) =>
              \A x \in EdgeSlots(builder) : \A t \in Times :
                  CountOf(ForwardFromSource(allocate_from(builder),
                                            new_source(x[1], x[2]), {<<t, 1>>}),
                          <<t, EdgeTargetAt(builder, x), 1>>)
                    = Cardinality({y \in EdgeSlots(builder) :
                                      /\ y[1] = x[1] /\ y[2] = x[2]
                                      /\ EdgeTargetAt(builder, y) = EdgeTargetAt(builder, x)})

\* two sources with an edge into the same target: the later one has a
\* summary to the scope output, the earlier one has a path but no summary
C30_Witness ==
    /\ pc = "building" /\ BuildInBounds(builder)
    /\ \E x \in EdgeSlots(builder) : \E y \in KeptSlots(builder) :
          /\ EdgeTargetAt(builder, x) = EdgeTargetAt(builder, y)
          /\ LocLess(new_source(x[1], x[2]), new_source(y[1], y[2]))
          /\ SummarizedFor(builder, new_source(y[1], y[2]), 0) # {}
          /\ SummarizedFor(builder, new_source(x[1], x[2]), 0) = {}
          /\ PathSummaries(builder, new_source(x[1], x[2]), 0) # {}

(***************************************************************************)
(* Termination of summarize_outputs                                        *)
(***************************************************************************)
\* antichains[output] at a location: empty when the entry is missing
EntryOf(st, loc, output) ==
    IF loc \in DOMAIN st.results /\ output \in DOMAIN st.results[loc]
    THEN st.results[loc][output] ELSE {}

\* how far an antichain of summaries "add k" can still be improved: an
\* insert that returns true lowers it
Room(a) == IF a = {} THEN MaxTime + 2 ELSE 1 + (CHOOSE x \in a : \A y \in a : SummaryLeq(x, y))

\* twice the room left in all antichains, plus the length of the work list
Variant(st) ==
    2 * SumFn(Table([k \in ((0..(MaxNodes - 1)) \X {KTarget, KSource} \X (0..MaxPorts))
                            \X (0..MaxPorts) |-> Room(EntryOf(st, k[1], k[2]))]))
    + Len(st.worklist)

\* the items pushed on the work list by one iteration from st to after
Enqueued(st, after) ==
    {after.worklist[i] : i \in Len(st.worklist)..Len(after.worklist)}

\* C31: summarize_outputs terminates on every graph, with cycles of default
\* or of incrementing summaries or without: once entered it returns, and
\* returns what summarize_outputs computes; an iteration enqueues an item
\* only for a summary that Antichain::insert accepted, which no summary
\* already in the antichain dominates or equals, so that every iteration
\* lowers the room left in the antichains plus the length of the work list.
C31_SummarizeOutputsTerminates ==
    /\ (pc = "summarizing") ~> (pc = "summarized")
    /\ [](pc = "summarized" => summarizing.results = summarize_outputs(builder))
    /\ [][(pc = "summarizing" /\ pc' = "summarizing") =>
            /\ Variant(summarizing') < Variant(summarizing)
            /\ Variant(summarizing') >= 0
            /\ \A item \in Enqueued(summarizing, summarizing') :
                  /\ item[3] \in EntryOf(summarizing', item[1], item[2])
                  /\ \A x \in EntryOf(summarizing, item[1], item[2]) : ~SummaryLeq(x, item[3])]_vars

\* the traversal has returned on a graph with a cycle of default summaries
\* through a scope output: it went round and came back to Target(0, 0)
C31_Witness ==
    /\ pc = "summarized"
    /\ HasCycle(DefaultArcs(builder))
    /\ EntryOf(summarizing, new_target(0, 0), 0) = {DefaultSummary}
    /\ DOMAIN builder.nodes = 0..(MaxNodes - 1)

\* the traversal has returned on a graph whose only cycles go through an
\* incrementing summary
C31_WitnessIncrementing ==
    /\ pc = "summarized"
    /\ HasCycle(AllArcs(builder))
    /\ ~HasCycle(DefaultArcs(builder))
    /\ EntryOf(summarizing, new_target(0, 0), 0) = {1}

=============================================================================
